---------------------------- MODULE Spec2Model ----------------------------
(***************************************************************************)
(* A model of the parsec parser combinators (parsec/parse.py) and of the   *)
(* algebraic expression grammar built on them (parsec/algebra.py).         *)
(*                                                                         *)
(* A Python string is a sequence of one-character strings.  A parser is a  *)
(* data value (a record tagged by the combinator that built it); calling   *)
(* it on a string is the operator apply.  A call either returns            *)
(* (value, remainder) or raises ParseError(args).                          *)
(***************************************************************************)
EXTENDS Integers, Sequences, FiniteSets, TLC

(***************************************************************************)
(* Python values.  Every value is a tuple whose first element is its type. *)
(***************************************************************************)
None == <<"None">>
PyStr(chars) == <<"str", chars>>
PyList(elems) == <<"list", elems>>
PyFloat(n, k) == <<"float", n, k>>      \* the real number n / 10^k
Variable(symbol) == <<"Variable", symbol>>
Operation(symbol) == <<"Operation", symbol>>

Elems(v) == v[2]

(***************************************************************************)
(* The two ways a call ends.                                               *)
(***************************************************************************)
Return(value, remainder) ==
    [ok |-> TRUE, val |-> value, rem |-> remainder, args |-> <<>>, calls |-> <<>>]
ParseError(args) ==
    [ok |-> FALSE, val |-> None, rem |-> <<>>, args |-> args, calls |-> <<>>]
\* the same end of a call that made the calls given
Calling(calls, r) == [r EXCEPT !.calls = calls]

\* ord() of the characters the model uses
ord(c) ==
    CASE c = "\t" -> 9   [] c = "\n" -> 10  [] c = " " -> 32
      [] c = "(" -> 40   [] c = ")" -> 41   [] c = "*" -> 42
      [] c = "+" -> 43   [] c = "-" -> 45   [] c = "." -> 46
      [] c = "/" -> 47   [] c = "0" -> 48   [] c = "3" -> 51
      [] c = "4" -> 52   [] c = "^" -> 94   [] c = "_" -> 95
      [] c = "c" -> 99   [] c = "e" -> 101  [] c = "i" -> 105
      [] c = "n" -> 110  [] c = "o" -> 111  [] c = "s" -> 115
      [] c = "x" -> 120  [] c = "X" -> 88

\* string[n:]
Drop(string, n) == SubSeq(string, n + 1, Len(string))
\* string[:n]
Take(string, n) == SubSeq(string, 1, IF n < Len(string) THEN n ELSE Len(string))
\* string.startswith(lit)
startswith(string, lit) ==
    Len(lit) <= Len(string) /\ SubSeq(string, 1, Len(lit)) = lit

(***************************************************************************)
(* Parsers as data.                                                        *)
(***************************************************************************)
mkDigit == [t |-> "digit"]
mkLetter == [t |-> "letter"]
mkSpace == [t |-> "space"]
mkEnd == [t |-> "end"]
mkLiteral(lit) == [t |-> "literal", lit |-> lit]
mkMany(p) == [t |-> "many", p |-> p]
mkManyone(p) == [t |-> "manyone", p |-> p]
mkSequence(ps) == [t |-> "sequence", ps |-> ps]
mkOr(ps) == [t |-> "or_", ps |-> ps]
mkTry(p) == [t |-> "try_", p |-> p]
mkPmap(p, f) == [t |-> "pmap", p |-> p, f |-> f]
mkErrormessage(msg, p) == [t |-> "errormessage", msg |-> msg, p |-> p]
mkExpression(prec) == [t |-> "expression", prec |-> prec]
mkFullExpression == [t |-> "full_expression"]
mkPrefixExpression == [t |-> "prefix_expression"]
mkInfixExpression(prec) == [t |-> "infix_expression", prec |-> prec]

RECURSIVE apply(_, _)

(***************************************************************************)
(* Primitive matchers.                                                     *)
(***************************************************************************)
digit(string) ==
    IF string = <<>> THEN ParseError(<<PyStr(<<"empty string">>)>>)
    ELSE IF ord(string[1]) <= 57 /\ ord(string[1]) >= 48
         THEN Return(PyStr(<<string[1]>>), Drop(string, 1))
         ELSE ParseError(<<PyStr(<<"not a digit">>)>>)

letter(string) ==
    IF string = <<>> THEN ParseError(<<PyStr(<<"empty string">>)>>)
    ELSE IF \/ (ord(string[1]) <= 90 /\ ord(string[1]) >= 65)
            \/ (ord(string[1]) <= 122 /\ ord(string[1]) >= 97)
         THEN Return(PyStr(<<string[1]>>), Drop(string, 1))
         ELSE ParseError(<<PyStr(<<"not a letter">>)>>)

space(string) ==
    IF string = <<>> THEN ParseError(<<PyStr(<<"empty string">>)>>)
    ELSE IF string[1] = " " \/ string[1] = "\t" \/ string[1] = "\n"
         THEN Return(PyStr(<<string[1]>>), Drop(string, 1))
         ELSE ParseError(<<PyStr(<<"not whitespace, tab or new line character">>)>>)

literal(lit, string) ==
    IF startswith(string, lit)
    THEN Return(PyStr(lit), Drop(string, Len(lit)))
    ELSE ParseError(<<PyStr(<<"doesn't match literal '">> \o lit \o <<"'">>)>>)

end(string) ==
    IF string # <<>> THEN ParseError(<<PyStr(<<"not the end of input">>)>>)
    ELSE Return(None, <<>>)

(***************************************************************************)
(* The functions that pmap maps over results.                              *)
(***************************************************************************)
RECURSIVE join(_)
\* "".join(strs), strs a list of Python strings
join(strs) == IF strs = <<>> THEN <<>> ELSE Elems(Head(strs)) \o join(Tail(strs))

digitvalue(c) == ord(c) - 48

RECURSIVE int(_)
\* the number a string of digits denotes
int(digits) ==
    IF digits = <<>> THEN 0
    ELSE 10 * int(SubSeq(digits, 1, Len(digits) - 1)) + digitvalue(digits[Len(digits)])

RECURSIVE reduce(_, _)
\* n / 10^k in lowest form: equal reals get equal representations
reduce(n, k) == IF k > 0 /\ n % 10 = 0 THEN reduce(n \div 10, k - 1) ELSE PyFloat(n, k)

\* sign * float(intdigits [+ "." + decimaldigits])
float(sign, intdigits, decimaldigits) ==
    reduce(sign * int(intdigits \o decimaldigits), Len(decimaldigits))

number_function(value) ==
    LET dash == Elems(value)[1]
        intdigits == Elems(value)[3]
        floatpart == Elems(value)[4]
        sign == IF dash = None THEN 1 ELSE -1
    IN  IF floatpart = None
        THEN float(sign, join(Elems(intdigits)), <<>>)
        ELSE float(sign, join(Elems(intdigits)), join(Elems(Elems(floatpart)[2])))

variable_function(value) ==
    Variable(join(<<Elems(value)[1]>> \o Elems(Elems(value)[2])))

wrapped_expression_function(value) == Elems(value)[2]

call(f, value) ==
    CASE f = "number" -> number_function(value)
      [] f = "variable" -> variable_function(value)
      [] f = "wrapped_expression" -> wrapped_expression_function(value)
      [] f = "negate" -> Operation(<<"n", "e", "g", "a", "t", "e">>)
      [] f = "Operation" -> Operation(Elems(value))
      [] f = "dropvalue" -> None

(***************************************************************************)
(* Combinators.  many(p, string) is the call many(p)(string), and so on.   *)
(* What a call returns records, in calls, the calls <<parser, string>> it  *)
(* made itself, in the order it made them.                                 *)
(***************************************************************************)
RECURSIVE manyLoop(_, _, _, _)
manyLoop(p, string, result, calls) ==
    \* the while loop, entered with the list built so far
    LET r == apply(p, string)
        made == Append(calls, <<p, string>>)
    IN  IF ~r.ok THEN Calling(made, Return(PyList(result), string))
        ELSE IF r.rem = string
             \* ParseError("no input is being consumed"), caught at once
             THEN Calling(made, Return(PyList(result), string))
             ELSE manyLoop(p, r.rem, Append(result, r.val), made)

RECURSIVE manyLoopUnchecked(_, _, _, _)
manyLoopUnchecked(p, string, result, calls) ==
    LET r == apply(p, string)
        made == Append(calls, <<p, string>>)
    IN  IF ~r.ok THEN Calling(made, Return(PyList(result), string))
        ELSE IF r.rem = string
             THEN Calling(made, Return(PyList(Append(result, r.val)), string))
             ELSE manyLoopUnchecked(p, r.rem, Append(result, r.val), made)

\* many, with the value appended before the test that input was consumed
many_appending_first(p, string) == manyLoopUnchecked(p, string, <<>>, <<>>)

many(p, string) == manyLoop(p, string, <<>>, <<>>)

manyone(p, string) ==
    LET first == apply(p, string) IN
    IF ~first.ok THEN Calling(<<<<p, string>>>>, ParseError(first.args))
    ELSE LET more == apply(mkMany(p), first.rem) IN
         Calling(<<<<p, string>>, <<mkMany(p), first.rem>>>>,
                 Return(PyList(<<first.val>> \o Elems(more.val)), more.rem))

RECURSIVE sequenceFrom(_, _, _, _, _)
sequenceFrom(ps, i, string, result, calls) ==
    \* the for loop, at the i-th parser
    IF i > Len(ps) THEN Calling(calls, Return(PyList(result), string))
    ELSE LET r == apply(ps[i], string)
             made == Append(calls, <<ps[i], string>>)
         IN  IF ~r.ok THEN Calling(made, ParseError(r.args))
             ELSE sequenceFrom(ps, i + 1, r.rem, Append(result, r.val), made)

sequence(ps, string) == sequenceFrom(ps, 1, string, <<>>, <<>>)

RECURSIVE orFrom(_, _, _, _, _)
orFrom(ps, i, string, message, calls) ==
    \* the for loop, at the i-th alternative; message is a list of pieces
    IF i > Len(ps)
    THEN Calling(calls, ParseError(<<PyStr(Take(message, Len(message) - 1))>>))
    ELSE LET r == apply(ps[i], string)
             made == Append(calls, <<ps[i], string>>)
         IN  IF r.ok THEN Calling(made, Return(r.val, r.rem))
             ELSE IF r.args # <<>> /\ r.args[1] # None
                  THEN orFrom(ps, i + 1, string,
                              message \o Elems(r.args[1]) \o <<"\n">>, made)
                  ELSE orFrom(ps, i + 1, string, message, made)

RECURSIVE orLastFrom(_, _, _, _, _, _)
orLastFrom(ps, i, string, message, calls, found) ==
    IF i > Len(ps)
    THEN IF found.ok THEN Calling(calls, found)
         ELSE Calling(calls, ParseError(<<PyStr(Take(message, Len(message) - 1))>>))
    ELSE LET r == apply(ps[i], string)
             made == Append(calls, <<ps[i], string>>)
         IN  IF r.ok
             THEN orLastFrom(ps, i + 1, string, message, made, Return(r.val, r.rem))
             ELSE orLastFrom(ps, i + 1, string,
                             message \o Elems(r.args[1]) \o <<"\n">>, made, found)

\* or_, with the loop going on after a success: the last success is returned
or_without_return(ps, string) ==
    orLastFrom(ps, 1, string, <<>>, <<>>, ParseError(<<>>))

or_(ps, string) == orFrom(ps, 1, string, <<>>, <<>>)

\* try_, with no except clause: the ParseError goes through
try_without_except(p, string) ==
    LET r == apply(p, string) IN
    Calling(<<<<p, string>>>>,
            IF r.ok THEN Return(r.val, r.rem) ELSE ParseError(r.args))

try_(p, string) ==
    LET r == apply(p, string) IN
    Calling(<<<<p, string>>>>,
            IF r.ok THEN Return(r.val, r.rem) ELSE Return(None, string))

errormessage(msg, p, string) ==
    LET r == apply(p, string) IN
    Calling(<<<<p, string>>>>,
            IF r.ok THEN Return(r.val, r.rem)
            ELSE ParseError(<<PyStr(<<msg, " -- at '">> \o Take(string, 5)
                                        \o <<"...'">>)>>))

pmap(p, f, string) ==
    LET r == apply(p, string) IN
    Calling(<<<<p, string>>>>,
            IF r.ok THEN Return(call(f, r.val), r.rem) ELSE ParseError(r.args))

dropvalue(p) == mkPmap(p, "dropvalue")

(***************************************************************************)
(* parsec/algebra.py: the expression grammar.                              *)
(***************************************************************************)
number ==
    mkErrormessage("input is not a valid number",
        mkPmap(mkSequence(<<mkTry(mkLiteral(<<"-">>)),
                            dropvalue(mkMany(mkSpace)),
                            mkManyone(mkDigit),
                            mkTry(mkSequence(<<mkLiteral(<<".">>),
                                               mkManyone(mkDigit)>>))>>),
               "number"))

variable ==
    mkErrormessage("input is not a valid variable name",
        mkPmap(mkSequence(<<mkLetter,
                            mkMany(mkOr(<<mkLetter, mkDigit,
                                          mkLiteral(<<"_">>)>>))>>),
               "variable"))

\* the keys of infix_operations, in the order map() hands them to or_
infix_literals == << <<"+">>, <<"*">>, <<"-">>, <<"/">>, <<"^">> >>

infix_operations(op) ==
    CASE op = <<"+">> -> 1
      [] op = <<"*">> -> 2
      [] op = <<"-">> -> 1
      [] op = <<"/">> -> 2
      [] op = <<"^">> -> 3

minprecedence ==
    CHOOSE m \in {infix_operations(infix_literals[i]) : i \in DOMAIN infix_literals} :
        \A i \in DOMAIN infix_literals : m <= infix_operations(infix_literals[i])

prefix_operations ==
    << mkPmap(mkLiteral(<<"-">>), "negate"),
       mkPmap(mkLiteral(<<"s", "i", "n">>), "Operation"),
       mkPmap(mkLiteral(<<"c", "o", "s">>), "Operation") >>

spaces == mkMany(mkSpace)

wrapped_expression ==
    mkPmap(mkSequence(<<mkLiteral(<<"(">>), mkFullExpression, mkLiteral(<<")">>)>>),
           "wrapped_expression")

RECURSIVE foldInfixes(_, _, _)
foldInfixes(exp, infixes, i) ==
    \* for infix in infixes: exp = [infix[0], exp, infix[1]]
    IF i > Len(infixes) THEN exp
    ELSE foldInfixes(PyList(<<Elems(infixes[i])[1], exp, Elems(infixes[i])[2]>>),
                     infixes, i + 1)

\* the alternatives of a left operand, with the prefix operators first
operand_alternatives_prefix_first ==
    <<mkPrefixExpression, wrapped_expression, number, variable>>

\* the alternatives of a left operand, with the variable before the prefix
\* operators
operand_alternatives_variable_first ==
    <<number, variable, mkPrefixExpression, wrapped_expression>>

\* the alternatives of a left operand, in the order or_ is given them
operand_alternatives ==
    <<number, mkPrefixExpression, wrapped_expression, variable>>

expression(current_precedence, string) ==
    LET parser == mkSequence(<<spaces,
                               mkOr(operand_alternatives),
                               spaces,
                               mkMany(mkInfixExpression(current_precedence)),
                               spaces>>)
        r == apply(parser, string)
    IN  Calling(<<<<parser, string>>>>,
                IF ~r.ok THEN ParseError(r.args)
                ELSE Return(foldInfixes(Elems(r.val)[2], Elems(Elems(r.val)[4]), 1),
                            r.rem))

full_expression(string) ==
    LET r == apply(mkExpression(minprecedence), string) IN
    Calling(<<<<mkExpression(minprecedence), string>>>>, r)

prefix_expression(string) ==
    LET parser == mkSequence(<<mkOr(prefix_operations),
                               spaces,
                               mkOr(<<wrapped_expression, number,
                                      mkPrefixExpression, variable>>)>>)
        r == apply(parser, string)
    IN  Calling(<<<<parser, string>>>>,
                IF ~r.ok THEN ParseError(r.args)
                ELSE Return(PyList(<<Elems(r.val)[1], Elems(r.val)[3]>>), r.rem))

\* infix_expression, with the test of the precedence left out
infix_expression_ungated(current_precedence, string) ==
    LET operator == mkOr([i \in DOMAIN infix_literals |-> mkLiteral(infix_literals[i])])
        r == apply(operator, string)
        op == Elems(r.val)
        precedence == infix_operations(op)
        e == apply(mkExpression(precedence), r.rem)
    IN  IF ~r.ok THEN Calling(<<<<operator, string>>>>, ParseError(r.args))
        ELSE Calling(<<<<operator, string>>, <<mkExpression(precedence), r.rem>>>>,
                     IF ~e.ok THEN ParseError(e.args)
                     ELSE Return(PyList(<<Operation(op), e.val>>), e.rem))

\* infix_expression, with the right-hand side parsed one precedence higher,
\* as a grammar that makes the operators left-associative does
infix_expression_left_associative(current_precedence, string) ==
    LET operator == mkOr([i \in DOMAIN infix_literals |-> mkLiteral(infix_literals[i])])
        r == apply(operator, string)
        op == Elems(r.val)
        precedence == infix_operations(op)
        e == apply(mkExpression(precedence + 1), r.rem)
    IN  IF ~r.ok THEN Calling(<<<<operator, string>>>>, ParseError(r.args))
        ELSE IF precedence < current_precedence
             THEN Calling(<<<<operator, string>>>>, ParseError(<<PyStr(<<>>)>>))
             ELSE Calling(<<<<operator, string>>,
                            <<mkExpression(precedence + 1), r.rem>>>>,
                          IF ~e.ok THEN ParseError(e.args)
                          ELSE Return(PyList(<<Operation(op), e.val>>), e.rem))

\* infix_expression, with the right-hand side parsed from string, not from
\* what the operator left
infix_expression_from_string(current_precedence, string) ==
    LET operator == mkOr([i \in DOMAIN infix_literals |-> mkLiteral(infix_literals[i])])
        r == apply(operator, string)
        op == Elems(r.val)
        precedence == infix_operations(op)
        e == apply(mkExpression(precedence), string)
    IN  IF ~r.ok THEN Calling(<<<<operator, string>>>>, ParseError(r.args))
        ELSE IF precedence < current_precedence
             THEN Calling(<<<<operator, string>>>>, ParseError(<<PyStr(<<>>)>>))
             ELSE Calling(<<<<operator, string>>, <<mkExpression(precedence), string>>>>,
                          IF ~e.ok THEN ParseError(e.args)
                          ELSE Return(PyList(<<Operation(op), e.val>>), e.rem))

infix_expression(current_precedence, string) ==
    LET operator == mkOr([i \in DOMAIN infix_literals |-> mkLiteral(infix_literals[i])])
        r == apply(operator, string)
        op == Elems(r.val)
        precedence == infix_operations(op)
        e == apply(mkExpression(precedence), r.rem)
    IN  IF ~r.ok THEN Calling(<<<<operator, string>>>>, ParseError(r.args))
        ELSE IF precedence < current_precedence
             THEN Calling(<<<<operator, string>>>>, ParseError(<<PyStr(<<>>)>>))
             ELSE Calling(<<<<operator, string>>, <<mkExpression(precedence), r.rem>>>>,
                          IF ~e.ok THEN ParseError(e.args)
                          ELSE Return(PyList(<<Operation(op), e.val>>), e.rem))

(***************************************************************************)
(* p(string): the call of a parser value.                                  *)
(***************************************************************************)
apply(p, string) ==
    CASE p.t = "digit" -> digit(string)
      [] p.t = "letter" -> letter(string)
      [] p.t = "space" -> space(string)
      [] p.t = "end" -> end(string)
      [] p.t = "literal" -> literal(p.lit, string)
      [] p.t = "many" -> many(p.p, string)
      [] p.t = "manyone" -> manyone(p.p, string)
      [] p.t = "sequence" -> sequence(p.ps, string)
      [] p.t = "or_" -> or_(p.ps, string)
      [] p.t = "try_" -> try_(p.p, string)
      [] p.t = "pmap" -> pmap(p.p, p.f, string)
      [] p.t = "errormessage" -> errormessage(p.msg, p.p, string)
      [] p.t = "expression" -> expression(p.prec, string)
      [] p.t = "full_expression" -> full_expression(string)
      [] p.t = "prefix_expression" -> prefix_expression(string)
      [] p.t = "infix_expression" -> infix_expression(p.prec, string)

\* runparser, with the test of the remainder left out
runparser_unchecked(p, string, ignore_remainder) ==
    LET r == apply(p, string) IN
    Calling(<<<<p, string>>>>,
            IF ~r.ok THEN ParseError(r.args) ELSE Return(r.val, <<>>))

\* p.__name__
name(p) == p.t

runparser(p, string, ignore_remainder) ==
    LET r == apply(p, string) IN
    Calling(<<<<p, string>>>>,
            IF ~r.ok THEN ParseError(r.args)
            ELSE IF ignore_remainder THEN Return(r.val, <<>>)
            ELSE IF r.rem # <<>>
                 THEN ParseError(<<PyStr(<<"<", name(p),
                                           "> parser didn't consume all input; ",
                                           "remaining '">> \o r.rem \o <<"'">>)>>)
                 ELSE Return(r.val, <<>>))

parse_expression(input_) == runparser(mkFullExpression, input_, FALSE)

(***************************************************************************)
(* The inputs the calls are made with.                                     *)
(***************************************************************************)
MaxLen == 3           \* characters of an input handed to a combinator
MaxAlternatives == 2  \* alternatives handed to or_
MaxTokens == 3        \* tokens of an input handed to the expression parser
MaxSuffix == 2        \* pieces that follow "sin" or "cos" in an identifier

RECURSIVE Concats(_, _)
\* the concatenations of at most n members of pieces
Concats(pieces, n) ==
    IF n = 0 THEN {<<>>}
    ELSE LET shorter == Concats(pieces, n - 1) IN
         shorter \cup {s \o t : s \in shorter, t \in pieces}

Chars == {"3", "-", ".", "x", "+", "*"}
ShortStrings == Concats({<<c>> : c \in Chars}, MaxLen)

Tokens ==
    { <<"3">>, <<"x">>, <<"-">>, <<"+">>, <<"*">>, <<"(">>, <<")">>, <<" ">>,
      <<".">>, <<"s", "i", "n">> }

Atoms == { <<"3">>, <<"-", "4", ".", "0">>, <<"x">> }
Infixes == {infix_literals[i] : i \in DOMAIN infix_literals}
Separators == {<<>>, <<" ">>}

\* a, a op b and a op b op c, with sep on both sides of each operator
Chains(sep) ==
    Atoms
        \cup {a \o sep \o op \o sep \o b : a \in Atoms, op \in Infixes, b \in Atoms}
        \cup {a \o sep \o op1 \o sep \o b \o sep \o op2 \o sep \o c :
                  a \in Atoms, op1 \in Infixes, b \in Atoms,
                  op2 \in Infixes, c \in Atoms}

Keywords == { <<"s", "i", "n">>, <<"c", "o", "s">> }
Identifiers ==
    {k \o r : k \in Keywords,
              r \in Concats({<<"c">>, <<"e">>, <<"3">>, <<"_">>} \cup Keywords,
                            MaxSuffix)}

ExpressionInputs ==
    Concats(Tokens, MaxTokens)
        \cup UNION {Chains(sep) : sep \in Separators}
        \cup Identifiers

\* the parsers handed to the combinators: pieces of the expression grammar
fraction == mkSequence(<<mkLiteral(<<".">>), mkManyone(mkDigit)>>)
TestParsers ==
    { mkDigit, fraction, number, mkTry(mkLiteral(<<"-">>)), mkInfixExpression(2),
      mkEnd }
Alternatives == { mkLiteral(<<"-">>), fraction, number, mkInfixExpression(2) }

RECURSIVE Tuples(_, _)
\* the tuples of at most n members of S
Tuples(S, n) ==
    IF n = 0 THEN {<<>>}
    ELSE LET shorter == Tuples(S, n - 1) IN
         shorter \cup {Append(t, x) : t \in shorter, x \in S}

(***************************************************************************)
(* The state: a call and how it ended.                                     *)
(***************************************************************************)
VARIABLES
    string,            \* the input of the call
    called,            \* what was called on it; "none" before the call
    parsers,           \* the parsers the call was given
    ignore_remainder,  \* runparser's flag
    result,            \* how the call ended
    enclosing          \* the nearest grammar rule on the stack above the call

vars == <<string, called, parsers, ignore_remainder, result, enclosing>>

Idle(inputs) ==
    /\ string \in inputs
    /\ called = "none"
    /\ parsers = <<>>
    /\ ignore_remainder = FALSE
    /\ result = Return(None, <<>>)
    /\ enclosing = <<>>

call_or_(ps) ==
    /\ called = "none"
    /\ called' = "or_"
    /\ parsers' = ps
    /\ result' = or_(ps, string)
    /\ UNCHANGED <<string, ignore_remainder, enclosing>>

call_try_(p) ==
    /\ called = "none"
    /\ called' = "try_"
    /\ parsers' = <<p>>
    /\ result' = try_(p, string)
    /\ UNCHANGED <<string, ignore_remainder, enclosing>>

call_many(p) ==
    /\ called = "none"
    /\ called' = "many"
    /\ parsers' = <<p>>
    /\ result' = many(p, string)
    /\ UNCHANGED <<string, ignore_remainder, enclosing>>

\* runparser(full_expression, string, ignore_remainder=True)
call_runparser ==
    /\ called = "none"
    /\ called' = "runparser"
    /\ parsers' = <<mkFullExpression>>
    /\ ignore_remainder' = TRUE
    /\ result' = runparser(mkFullExpression, string, TRUE)
    /\ UNCHANGED <<string, enclosing>>

call_parse_expression ==
    /\ called = "none"
    /\ called' = "parse_expression"
    /\ parsers' = <<mkFullExpression>>
    /\ result' = parse_expression(string)
    /\ UNCHANGED <<string, ignore_remainder, enclosing>>

\* the rules of the grammar that can be entered again from inside themselves
IsRule(p) ==
    \/ p.t \in {"expression", "full_expression", "prefix_expression",
                "infix_expression"}
    \/ p = wrapped_expression

\* control passes into the i-th call that the current call made
enter(i) ==
    /\ called # "none"
    /\ i \in DOMAIN result.calls
    /\ called' = "parser"
    /\ parsers' = <<result.calls[i][1]>>
    /\ string' = result.calls[i][2]
    /\ result' = apply(result.calls[i][1], result.calls[i][2])
    /\ enclosing' = IF called = "parser" /\ IsRule(parsers[1])
                    THEN <<parsers[1], string>>
                    ELSE enclosing
    /\ UNCHANGED ignore_remainder

\* the combinator engine, called with pieces of the grammar
Init == Idle(ShortStrings)
Next ==
    \/ \E ps \in Tuples(Alternatives, MaxAlternatives) : call_or_(ps)
    \/ \E p \in TestParsers : call_try_(p)
    \/ \E p \in TestParsers : call_many(p)
Spec == Init /\ [][Next]_vars

\* the expression parser, called through the driver
InitExpression == Idle(ExpressionInputs)
NextExpression ==
    \/ call_parse_expression
    \/ call_runparser
SpecExpression == InitExpression /\ [][NextExpression]_vars

\* the calls a parse of an expression makes, followed down the stack
InitCalls == Idle(Concats(Tokens, MaxTokens))
NextCalls ==
    \/ call_parse_expression
    \/ \E i \in DOMAIN result.calls : enter(i)
SpecCalls == InitCalls /\ [][NextCalls]_vars

(***************************************************************************)
(* What the claims say, and states in which their cases happen.            *)
(***************************************************************************)
\* the index of the first alternative that succeeds on s, 0 if none does
FirstSuccess(ps, s) ==
    IF \E i \in DOMAIN ps : apply(ps[i], s).ok
    THEN CHOOSE i \in DOMAIN ps :
             /\ apply(ps[i], s).ok
             /\ \A j \in 1..(i - 1) : ~apply(ps[j], s).ok
    ELSE 0

\* C1: or_(p1..pn) on s returns what the first alternative that succeeds on
\* that same s returns, whatever the failed alternatives before it consumed,
\* and fails only when every alternative fails on s
C1_FirstSuccessOnOriginalInput ==
    called = "or_" =>
        LET first == FirstSuccess(parsers, string) IN
        IF first = 0 THEN ~result.ok
        ELSE /\ result.ok
             /\ result.val = apply(parsers[first], string).val
             /\ result.rem = apply(parsers[first], string).rem

\* the first alternative read "-" and then failed; the second one succeeded
C1_Witness ==
    /\ called = "or_"
    /\ parsers = <<number, mkLiteral(<<"-">>)>>
    /\ string = <<"-", "x">>
    /\ apply(mkTry(mkLiteral(<<"-">>)), string).val = PyStr(<<"-">>)
    /\ ~apply(number, string).ok
    /\ result.ok
    /\ result.val = PyStr(<<"-">>)
    /\ result.rem = <<"x">>

RECURSIVE NonEmptyLines(_, _, _)
\* the non-empty messages of the alternatives from the i-th on, each after
\* a newline if a message precedes it
NonEmptyLines(ps, s, i) ==
    IF i > Len(ps) THEN <<>>
    ELSE LET msg == Elems(apply(ps[i], s).args[1])
             rest == NonEmptyLines(ps, s, i + 1)
         IN  IF msg = <<>> THEN rest
             ELSE IF rest = <<>> THEN msg
             ELSE msg \o <<"\n">> \o rest

\* C2: when every alternative fails, the message of or_ is the non-empty
\* messages of the alternatives, in order, joined by single newlines; an
\* empty message adds nothing, not even a blank line
C2_MessageJoinsNonEmptyMessages ==
    (called = "or_" /\ FirstSuccess(parsers, string) = 0) =>
        result.args = <<PyStr(NonEmptyLines(parsers, string, 1))>>

\* C3: try_(p) never fails: it returns what p returns when p succeeds, and
\* (None, s) with s untouched when p fails
C3_TryNeverFails ==
    called = "try_" =>
        LET r == apply(parsers[1], string) IN
        /\ result.ok
        /\ r.ok => (result.val = r.val /\ result.rem = r.rem)
        /\ ~r.ok => (result.val = None /\ result.rem = string)

\* p read "." and found no digit after it
C3_Witness ==
    /\ called = "try_"
    /\ parsers = <<fraction>>
    /\ string = <<".", "x">>
    /\ apply(mkLiteral(<<".">>), string).ok
    /\ ~apply(fraction, string).ok
    /\ result.ok /\ result.val = None /\ result.rem = string

RECURSIVE MaximalRun(_, _, _, _)
\* values are what p returned in a run of applications from s on that each
\* succeeded and consumed input, rest is the input after the run, and the
\* application of p to rest fails or consumes nothing
MaximalRun(p, s, values, rest) ==
    LET r == apply(p, s) IN
    IF values = <<>>
    THEN rest = s /\ (~r.ok \/ r.rem = s)
    ELSE /\ r.ok
         /\ r.rem # s
         /\ r.val = Head(values)
         /\ MaximalRun(p, r.rem, Tail(values), rest)

\* C4: many(p) never fails and returns the values of the maximal run of
\* successful, consuming applications of p, with the input left after the
\* last of them; ([], s) when p does not match at s
C4_ManyReturnsMaximalRun ==
    called = "many" =>
        /\ result.ok
        /\ MaximalRun(parsers[1], string, Elems(result.val), result.rem)
        /\ ~apply(parsers[1], string).ok =>
               (result.val = PyList(<<>>) /\ result.rem = string)

\* one application succeeded, the next one read "." and then failed
C4_Witness ==
    /\ called = "many"
    /\ parsers = <<fraction>>
    /\ string = <<".", "3", ".">>
    /\ Len(Elems(result.val)) = 1
    /\ result.rem = <<".">>

\* C5: parse_expression returns a tree only if the grammar consumed all of
\* its input: when full_expression leaves a remainder the outcome is a
\* ParseError ("3 +" and "3 3" are such inputs), and a failure of the grammar
\* is passed on; with ignore_remainder=True runparser returns the value and
\* drops the remainder
C5_TreeOnlyWhenAllConsumed ==
    LET r == apply(mkFullExpression, string) IN
    /\ called = "parse_expression" =>
           /\ result.ok => (r.ok /\ r.rem = <<>> /\ result.val = r.val)
           /\ (r.ok /\ r.rem # <<>>) => ~result.ok
           /\ ~r.ok => (~result.ok /\ result.args = r.args)
           /\ string \in {<<"3", " ", "+">>, <<"3", " ", "3">>} => ~result.ok
    /\ (called = "runparser" /\ ignore_remainder) =>
           /\ r.ok => (result.ok /\ result.val = r.val)
           /\ ~r.ok => ~result.ok

\* "3 +": the grammar returns 3.0 and leaves "+", and the driver fails
C5_Witness ==
    /\ called = "parse_expression"
    /\ string = <<"3", " ", "+">>
    /\ apply(mkFullExpression, string).ok
    /\ apply(mkFullExpression, string).val = PyFloat(3, 0)
    /\ apply(mkFullExpression, string).rem = <<"+">>
    /\ ~result.ok

\* the value an atom of Atoms stands for
AtomValue(a) ==
    CASE a = <<"3">> -> PyFloat(3, 0)
      [] a = <<"-", "4", ".", "0">> -> PyFloat(-4, 0)
      [] a = <<"x">> -> Variable(<<"x">>)

\* how tightly the claims say an infix operator binds
Strength(op) ==
    CASE op = <<"^">> -> 3
      [] op \in {<<"*">>, <<"/">>} -> 2
      [] op \in {<<"+">>, <<"-">>} -> 1

Node(op, left, right) == PyList(<<Operation(op), left, right>>)
Chain(sep, a, op1, b, op2, c) ==
    a \o sep \o op1 \o sep \o b \o sep \o op2 \o sep \o c

Digits == {"0", "3", "4"}
Letters == {"c", "e", "i", "n", "o", "s", "x"}

\* "-", then spaces or none, then digits and nothing else
SignedDigits(s) ==
    /\ Len(s) >= 2
    /\ s[1] = "-"
    /\ \E k \in 2..Len(s) :
           /\ \A i \in 2..(k - 1) : s[i] = " "
           /\ \A i \in k..Len(s) : s[i] \in Digits
IsDigit(c) == c \in Digits
Negate(operand) ==
    PyList(<<Operation(<<"n", "e", "g", "a", "t", "e">>), operand>>)

RECURSIVE LeftOperand(_)
\* the leftmost operand of a tree of infix nodes [operation, left, right]
LeftOperand(tree) ==
    IF tree[1] = "list" /\ Len(Elems(tree)) = 3
    THEN LeftOperand(Elems(tree)[2])
    ELSE tree

IsIdentifier(s) ==
    /\ s # <<>>
    /\ s[1] \in Letters
    /\ \A i \in 2..Len(s) : s[i] \in Letters \cup Digits \cup {"_"}

\* C10: an identifier that is "sin" or "cos" followed by a letter or a digit
\* is never returned as a Variable of that name; such an identifier comes
\* back as a Variable only when nothing or "_" follows the operator name;
\* "since" parses to [sin, ce]
C10_PrefixNamesShadowIdentifiers ==
    called = "parse_expression" =>
        \A k \in Keywords :
            (startswith(string, k) /\ IsIdentifier(string)) =>
                LET r == Drop(string, Len(k))
                    returned == result.ok /\ result.val = Variable(string)
                IN  /\ (r # <<>> /\ r[1] \in Letters \cup Digits) => ~returned
                    /\ returned => (r = <<>> \/ r[1] = "_")
                    /\ string = <<"s", "i", "n", "c", "e">> =>
                           result.val = PyList(<<Operation(k), Variable(<<"c", "e">>)>>)

\* "since": the prefix operator sin applied to the variable ce
C10_Witness ==
    /\ called = "parse_expression"
    /\ string = <<"s", "i", "n", "c", "e">>
    /\ apply(variable, string).val = Variable(string)
    /\ result.ok
    /\ result.val = PyList(<<Operation(<<"s", "i", "n">>), Variable(<<"c", "e">>)>>)

\* the rules through which the grammar is entered again: "(", a prefix
\* operator, an infix operator
ConsumesFirst(p) ==
    p.t \in {"prefix_expression", "infix_expression"} \/ p = wrapped_expression

\* C9: a parse of an expression ends, because the input shrinks along every
\* chain of calls and iterations: each iteration of a many loop after the
\* first starts on a shorter input than the one before it, and a rule of the
\* grammar entered from inside a wrapped, prefix or infix expression starts
\* on a shorter input than that expression did
C9_InputShrinks ==
    called = "parser" =>
        /\ parsers[1].t = "many" =>
               \A i \in 1..(Len(result.calls) - 1) :
                   Len(result.calls[i + 1][2]) < Len(result.calls[i][2])
        /\ (IsRule(parsers[1]) /\ enclosing # <<>> /\ ConsumesFirst(enclosing[1])) =>
               Len(string) < Len(enclosing[2])

\* the right-hand side of an infix operator, entered after the operator
C9_Witness ==
    /\ called = "parser"
    /\ parsers[1].t = "expression"
    /\ enclosing # <<>>
    /\ enclosing[1].t = "infix_expression"
    /\ enclosing[2] = <<"+", "x">>
    /\ string = <<"x">>
    /\ result.ok

====
